---- MODULE Spec2Model ----
(***************************************************************************)
(* WalletSynchronizer (src/lib/WalletSynchronizer.ts): the block fetcher   *)
(* (getBlocks), the checkpoint facade (storeBlockHash, getHeight), the     *)
(* transaction scanner (processTransaction*, processCoinbaseTransaction)   *)
(* and the serialisation entry points, as a state machine.                 *)
(*                                                                         *)
(* The synchronizer's fields are the variables daemon, privateViewKey,     *)
(* startTimestamp, startHeight, synchronizationStatus and subWallets; a    *)
(* field that was never assigned holds "undefined".  calls holds the       *)
(* getBlocks calls suspended at their await, each with the checkpoints it  *)
(* read and the request it sent.  last is the record of the most recent    *)
(* call: its name, the state it was entered in (pre), its arguments (for a *)
(* scanning call the TransactionData accumulator the caller handed in,     *)
(* txDataIn), what it asked of its collaborators and what it returned.     *)
(* pinLog is every convertSyncTimestampToHeight notification the           *)
(* key-management collaborator has received; resolved records that a       *)
(* non-empty batch has been received.                                      *)
(***************************************************************************)
EXTENDS Integers, Sequences, FiniteSets, TLC

VARIABLES daemon, privateViewKey, startTimestamp, startHeight,
          synchronizationStatus, subWallets, calls, pinLog, resolved, last

vars == <<daemon, privateViewKey, startTimestamp, startHeight,
          synchronizationStatus, subWallets, calls, pinLog, resolved, last>>

(***************************************************************************)
(* Bounds of the model.                                                    *)
(***************************************************************************)
\* block heights, start heights and daemon block counts range over 0..MaxHeight
MaxHeight == 2
\* blocks in one getWalletSyncData answer
MaxBatch == 2
\* entries kept in the checkpoint window
WindowSize == 2
\* key inputs of one raw transaction
MaxInputs == 2
\* outputs of one raw transaction
MaxOutputs == 1
\* entries already in the accumulator handed to a scanning call
MaxPrior == 1
\* getBlocks calls suspended at their await at the same time
MaxCalls == 2
\* records one threaded accumulator collects before the thread ends
MaxThread == 2

Heights == 0..MaxHeight
\* a start timestamp is 0 (start from a height) or a time
Timestamps == {0, 1540000000, 1550000000}
\* the time and the height of the block being scanned
BlockTimestamps == {1540000120}
ScannedHeights == {MaxHeight}
Amounts == {1, 2}
Owners == {"A", "B"}
KeyImages == {"kA", "kB", "kN"}
OutputKeys == {"oA", "oN"}
TxHashes == {"tx1", "tx2"}
PrivateViewKeys == {"viewKey1", "viewKey2"}
PaymentIDs == {"", "pid"}
UnlockTimes == {0, 5}

\* all sequences over S of length at most n
RECURSIVE SeqsUpTo(_, _)
SeqsUpTo(S, n) ==
    IF n = 0 THEN {<<>>}
    ELSE LET shorter == SeqsUpTo(S, n - 1)
         IN  shorter \cup {Append(s, x) : s \in {t \in shorter : Len(t) = n - 1}, x \in S}

(***************************************************************************)
(* Collaborators.                                                          *)
(***************************************************************************)
\* SynchronizationStatus: the current height and the checkpoint window,
\* most recent first.
NewSynchronizationStatus == [lastKnownBlockHeight |-> 0, blockHashCheckpoints |-> <<>>]

getHeight(status) == status.lastKnownBlockHeight

getBlockHashCheckpoints(status) == status.blockHashCheckpoints

\* SynchronizationStatus.storeBlockHash: record the block, evict the oldest
\* checkpoint when the window is full.
statusStoreBlockHash(status, blockHeight, blockHash) ==
    [lastKnownBlockHeight |-> blockHeight,
     blockHashCheckpoints |->
        SubSeq(<<blockHash>> \o status.blockHashCheckpoints, 1,
               IF Len(status.blockHashCheckpoints) + 1 > WindowSize
               THEN WindowSize ELSE Len(status.blockHashCheckpoints) + 1)]

statusToJSON(status) ==
    [lastKnownBlockHeight |-> status.lastKnownBlockHeight,
     blockHashCheckpoints |-> status.blockHashCheckpoints]

\* SynchronizationStatus.fromJSON: the tracker described by the structure
statusFromJSON(json) ==
    [lastKnownBlockHeight |-> json.lastKnownBlockHeight,
     blockHashCheckpoints |-> json.blockHashCheckpoints]

\* SubWallets.getKeyImageOwner: [found, publicSpendKey].  The wallet owns key
\* image kA under spend key A and kB under B; kN is nobody's.
getKeyImageOwner(keyImage) ==
    IF keyImage = "kA" THEN <<TRUE, "A">>
    ELSE IF keyImage = "kB" THEN <<TRUE, "B">>
    ELSE <<FALSE, "">>

\* the owner the key-management collaborator derives for an output: oA is a
\* one-time key of spend key A, oN matches no spend key of the wallet.
outputOwner(output) ==
    IF output.key = "oA" THEN <<TRUE, "A">> ELSE <<FALSE, "">>

\* new Transaction(transfers, hash, fee, timestamp, blockHeight, paymentID,
\*                 unlockTime, isCoinbaseTransaction)
Transaction(transfers, hash, fee, timestamp, blockHeight, paymentID, unlockTime, isCoinbase) ==
    [transfers |-> transfers, hash |-> hash, fee |-> fee, timestamp |-> timestamp,
     blockHeight |-> blockHeight, paymentID |-> paymentID, unlockTime |-> unlockTime,
     isCoinbaseTransaction |-> isCoinbase]

(***************************************************************************)
(* Inputs.                                                                 *)
(***************************************************************************)
\* a batch of the daemon: n consecutive blocks from height first
Batch(first, n) == [i \in 1..n |-> [blockHeight |-> first + i - 1]]

Batches == {Batch(first, n) : first \in Heights, n \in 0..MaxBatch}

\* the hash of the block at a height of the chain being synchronized
BlockHashAt(blockHeight) == <<"hash", blockHeight>>

\* what daemon.getWalletSyncData does: it rejects, or resolves to a batch
Responses == {[failed |-> TRUE, blocks |-> <<>>]}
             \cup {[failed |-> FALSE, blocks |-> b] : b \in Batches}

KeyInputs == [amount : Amounts, keyImage : KeyImages]

KeyOutputs == [amount : Amounts, key : OutputKeys]

RawCoinbaseTXs == [hash : TxHashes, keyOutputs : SeqsUpTo(KeyOutputs, MaxOutputs),
                   unlockTime : UnlockTimes]

RawTXs == [hash : TxHashes, keyInputs : SeqsUpTo(KeyInputs, MaxInputs),
           keyOutputs : SeqsUpTo(KeyOutputs, MaxOutputs),
           paymentID : PaymentIDs, unlockTime : UnlockTimes]

\* new Map()
EmptyMap == [o \in {} |-> 0]

EmptyTxData == [transactionsToAdd |-> <<>>, keyImagesToMarkSpent |-> <<>>]

(***************************************************************************)
(* getBlocks.                                                              *)
(***************************************************************************)
\* the comparison never finding the daemon behind
NodeBehindNever(localDaemonBlockCount, walletBlockCount) == FALSE

\* the comparison with a daemon at the wallet's own height counted as behind
NodeBehindOrEqual(localDaemonBlockCount, walletBlockCount) ==
    localDaemonBlockCount <= walletBlockCount

\* if (localDaemonBlockCount < walletBlockCount) return [];
NodeBehind(localDaemonBlockCount, walletBlockCount) ==
    localDaemonBlockCount < walletBlockCount

\* the answer handling that takes every answer for an empty one
FetchOutcomeNoBatch(response) ==
    IF response.failed THEN "caught" ELSE "empty"

\* try { blocks = await daemon.getWalletSyncData(...) } catch (err) { return []; }
\* if (blocks.length === 0) return [];
\* "caught": the rejection was swallowed; "empty": nothing to process;
\* "blocks": a non-empty batch goes on to the pin and the assertion.
FetchOutcomeRethrow(response) ==
    IF response.failed THEN "rethrown"
    ELSE IF Len(response.blocks) = 0 THEN "empty"
    ELSE "blocks"

FetchOutcome(response) ==
    IF response.failed THEN "caught"
    ELSE IF Len(response.blocks) = 0 THEN "empty"
    ELSE "blocks"

\* the pin that notifies but leaves the timestamp in place
PinKeepsTimestamp(ts, sh, blocks) ==
    IF ts # 0
    THEN [startTimestamp |-> ts, startHeight |-> blocks[1].blockHeight,
          pins |-> <<[timestamp |-> ts, height |-> blocks[1].blockHeight]>>]
    ELSE [startTimestamp |-> ts, startHeight |-> sh, pins |-> <<>>]

PinLastBlock(ts, sh, blocks) ==
    IF ts # 0
    THEN [startTimestamp |-> 0, startHeight |-> blocks[Len(blocks)].blockHeight,
          pins |-> <<[timestamp |-> 0, height |-> blocks[Len(blocks)].blockHeight]>>]
    ELSE [startTimestamp |-> ts, startHeight |-> sh, pins |-> <<>>]

PinEveryBatch(ts, sh, blocks) ==
    [startTimestamp |-> blocks[1].blockHeight, startHeight |-> blocks[1].blockHeight,
     pins |-> <<[timestamp |-> blocks[1].blockHeight, height |-> blocks[1].blockHeight]>>]

\* the pin that zeroes the timestamp and notifies but keeps startHeight
PinKeepsHeight(ts, sh, blocks) ==
    IF ts # 0
    THEN [startTimestamp |-> 0, startHeight |-> sh,
          pins |-> <<[timestamp |-> 0, height |-> sh]>>]
    ELSE [startTimestamp |-> ts, startHeight |-> sh, pins |-> <<>>]

\* if (this.startTimestamp !== 0) { this.startTimestamp = 0;
\*     this.startHeight = blocks[0].blockHeight;
\*     this.subWallets.convertSyncTimestampToHeight(this.startTimestamp, this.startHeight); }
PinResumePoint(ts, sh, blocks) ==
    IF ts # 0
    THEN [startTimestamp |-> 0, startHeight |-> blocks[1].blockHeight,
          pins |-> <<[timestamp |-> 0, height |-> blocks[1].blockHeight]>>]
    ELSE [startTimestamp |-> ts, startHeight |-> sh, pins |-> <<>>]

\* the height check made whether or not the wallet has checkpoints
UnexpectedHeightAnyWindow(blockCheckpoints, ts, sh, blocks) ==
    /\ ts = 0
    /\ blocks[1].blockHeight # sh

UnexpectedHeightBelow(blockCheckpoints, ts, sh, blocks) ==
    /\ Len(blockCheckpoints) = 0
    /\ ts = 0
    /\ blocks[1].blockHeight < sh

\* if (_.isEmpty(blockCheckpoints)) { if (this.startTimestamp === 0) {
\*     if (actualHeight !== this.startHeight) throw ... } }
UnexpectedHeight(blockCheckpoints, ts, sh, blocks) ==
    /\ Len(blockCheckpoints) = 0
    /\ ts = 0
    /\ blocks[1].blockHeight # sh

\* The part of the call after the await (lines 111-145), resumed with the
\* fields at (ts, sh), the checkpoints read before the request and the
\* daemon's response: the fields afterwards, the pin notifications issued,
\* and whether the promise rejects (threw) or resolves to blocks.
getBlocksAfterAwait(ts, sh, blockCheckpoints, response) ==
    LET quiet == [startTimestamp |-> ts, startHeight |-> sh, requests |-> <<>>,
                  pins |-> <<>>, threw |-> FALSE, blocks |-> <<>>, received |-> FALSE]
        outcome == FetchOutcome(response)
        pinned == PinResumePoint(ts, sh, response.blocks)
    IN  IF outcome \in {"caught", "empty"} THEN quiet
        ELSE IF outcome = "rethrown" THEN [quiet EXCEPT !.threw = TRUE]
        ELSE [startTimestamp |-> pinned.startTimestamp,
              startHeight |-> pinned.startHeight,
              requests |-> <<>>,
              pins |-> pinned.pins,
              threw |-> UnexpectedHeight(blockCheckpoints, pinned.startTimestamp,
                                         pinned.startHeight, response.blocks),
              blocks |-> IF UnexpectedHeight(blockCheckpoints, pinned.startTimestamp,
                                             pinned.startHeight, response.blocks)
                         THEN <<>> ELSE response.blocks,
              received |-> TRUE]

\* the arguments of daemon.getWalletSyncData (lines 106-110)
SyncDataRequest(ts, sh, blockCheckpoints) ==
    [blockCheckpoints |-> blockCheckpoints, startHeight |-> sh, startTimestamp |-> ts]

\* The whole call when nothing else runs during the await, entered with
\* resume point (ts, sh) and tracker status, for a daemon at
\* localDaemonBlockCount that answers the request with response: the fields
\* after the call, the requests and pin notifications issued, and whether the
\* promise rejects (threw) or resolves to blocks.
getBlocks(ts, sh, status, localDaemonBlockCount, response) ==
    LET blockCheckpoints == getBlockHashCheckpoints(status)
    IN  IF NodeBehind(localDaemonBlockCount, getHeight(status))
        THEN [startTimestamp |-> ts, startHeight |-> sh, requests |-> <<>>,
              pins |-> <<>>, threw |-> FALSE, blocks |-> <<>>, received |-> FALSE]
        ELSE [getBlocksAfterAwait(ts, sh, blockCheckpoints, response)
                 EXCEPT !.requests = <<SyncDataRequest(ts, sh, blockCheckpoints)>>]

\* the fields of the synchronizer a call is entered with
Snapshot == [privateViewKey |-> privateViewKey, startTimestamp |-> startTimestamp,
             startHeight |-> startHeight,
             synchronizationStatus |-> synchronizationStatus]

Attached == subWallets = "attached"

\* getBlocks that also records the last block of the batch it returns
GetBlocksStoresHash ==
    /\ Attached
    /\ daemon = "attached"
    /\ \E localDaemonBlockCount \in Heights, response \in Responses :
          LET r == getBlocks(startTimestamp, startHeight, synchronizationStatus,
                             localDaemonBlockCount, response)
              top == r.blocks[Len(r.blocks)].blockHeight
          IN  /\ startTimestamp' = r.startTimestamp
              /\ startHeight' = r.startHeight
              /\ pinLog' = pinLog \o r.pins
              /\ resolved' = (resolved \/ r.received)
              /\ synchronizationStatus' =
                    IF r.blocks = <<>> THEN synchronizationStatus
                    ELSE statusStoreBlockHash(synchronizationStatus, top,
                                              BlockHashAt(top))
              /\ last' = [name |-> "getBlocks", pre |-> Snapshot,
                          localDaemonBlockCount |-> localDaemonBlockCount,
                          response |-> response, requests |-> r.requests,
                          pins |-> r.pins, threw |-> r.threw, blocks |-> r.blocks,
                          error |-> IF r.threw THEN "Error" ELSE "none"]
    /\ UNCHANGED <<calls, daemon, privateViewKey, subWallets>>

\* A restored synchronizer has no daemon until one is assigned, and evaluating
\* this.daemon.getLocalDaemonBlockCount() on it throws a TypeError, which
\* rejects the promise before anything else happens.
GetBlocks ==
    /\ Attached
    /\ \E localDaemonBlockCount \in Heights, response \in Responses :
          LET r == getBlocks(startTimestamp, startHeight, synchronizationStatus,
                             localDaemonBlockCount, response)
          IN  IF daemon = "undefined"
              THEN /\ UNCHANGED <<startTimestamp, startHeight, pinLog, resolved>>
                   /\ last' = [name |-> "getBlocks", pre |-> Snapshot,
                               localDaemonBlockCount |-> localDaemonBlockCount,
                               response |-> response, requests |-> <<>>,
                               pins |-> <<>>, threw |-> TRUE, blocks |-> <<>>,
                               error |-> "TypeError"]
              ELSE /\ startTimestamp' = r.startTimestamp
                   /\ startHeight' = r.startHeight
                   /\ pinLog' = pinLog \o r.pins
                   /\ resolved' = (resolved \/ r.received)
                   /\ last' = [name |-> "getBlocks", pre |-> Snapshot,
                               localDaemonBlockCount |-> localDaemonBlockCount,
                               response |-> response, requests |-> r.requests,
                               pins |-> r.pins, threw |-> r.threw,
                               blocks |-> r.blocks,
                               error |-> IF r.threw THEN "Error" ELSE "none"]
    /\ UNCHANGED <<calls, daemon, privateViewKey, synchronizationStatus,
                   subWallets>>

\* A getBlocks call up to its await (lines 69-110): it returns at once when
\* the daemon is behind, and otherwise reads the checkpoints, sends the
\* request with the fields as they are now and is suspended.
GetBlocksEnter ==
    /\ Attached
    /\ daemon = "attached"
    /\ Len(calls) < MaxCalls
    /\ \E localDaemonBlockCount \in Heights :
          LET blockCheckpoints == getBlockHashCheckpoints(synchronizationStatus)
              behind == NodeBehind(localDaemonBlockCount,
                                   getHeight(synchronizationStatus))
          IN  /\ calls' = IF behind THEN calls
                          ELSE Append(calls,
                                 [blockCheckpoints |-> blockCheckpoints,
                                  request |-> SyncDataRequest(startTimestamp,
                                                 startHeight, blockCheckpoints)])
              /\ last' = [name |-> "getBlocksEnter", pre |-> Snapshot,
                          localDaemonBlockCount |-> localDaemonBlockCount,
                          suspended |-> ~behind]
    /\ UNCHANGED <<daemon, privateViewKey, startTimestamp, startHeight,
                   synchronizationStatus, subWallets, pinLog, resolved>>

\* the resumed call testing the timestamp it was entered with, not the field
GetBlocksResumeStale ==
    /\ \E i \in 1..Len(calls), response \in Responses :
          LET call == calls[i]
              r == getBlocksAfterAwait(call.request.startTimestamp, startHeight,
                                       call.blockCheckpoints, response)
          IN  /\ calls' = SubSeq(calls, 1, i - 1) \o SubSeq(calls, i + 1, Len(calls))
              /\ startTimestamp' = IF r.received THEN r.startTimestamp
                                   ELSE startTimestamp
              /\ startHeight' = r.startHeight
              /\ pinLog' = pinLog \o r.pins
              /\ resolved' = (resolved \/ r.received)
              /\ last' = [name |-> "getBlocksResume", pre |-> Snapshot,
                          entered |-> call, response |-> response,
                          pins |-> r.pins, threw |-> r.threw, blocks |-> r.blocks,
                          received |-> r.received]
    /\ UNCHANGED <<daemon, privateViewKey, synchronizationStatus, subWallets>>

\* The daemon answers one of the suspended calls, in any order, and the call
\* runs from its await to its end (lines 111-145) on the fields as they are
\* when it is resumed.
GetBlocksResume ==
    /\ \E i \in 1..Len(calls), response \in Responses :
          LET call == calls[i]
              r == getBlocksAfterAwait(startTimestamp, startHeight,
                                       call.blockCheckpoints, response)
          IN  /\ calls' = SubSeq(calls, 1, i - 1) \o SubSeq(calls, i + 1, Len(calls))
              /\ startTimestamp' = r.startTimestamp
              /\ startHeight' = r.startHeight
              /\ pinLog' = pinLog \o r.pins
              /\ resolved' = (resolved \/ r.received)
              /\ last' = [name |-> "getBlocksResume", pre |-> Snapshot,
                          entered |-> call, response |-> response,
                          pins |-> r.pins, threw |-> r.threw, blocks |-> r.blocks,
                          received |-> r.received]
    /\ UNCHANGED <<daemon, privateViewKey, synchronizationStatus, subWallets>>

(***************************************************************************)
(* The transaction scanner.                                                *)
(***************************************************************************)
\* transfers.get(publicSpendKey) || 0
mapGet(transfers, key) == IF key \in DOMAIN transfers THEN transfers[key] ELSE 0

\* transfers.set(publicSpendKey, amount)
mapSet(transfers, key, amount) ==
    [k \in (DOMAIN transfers) \cup {key} |-> IF k = key THEN amount ELSE transfers[k]]

\* _.isEmpty(transfers)
isEmpty(transfers) == DOMAIN transfers = {}

\* One turn of the loop of processTransactionInputs over acc = [sumOfInputs,
\* transfers, txData]:
\*   sumOfInputs += input.amount;
\*   const [found, publicSpendKey] = this.subWallets.getKeyImageOwner(input.keyImage);
\*   if (found) { transfers.set(publicSpendKey, (transfers.get(publicSpendKey) || 0) + input.amount);
\*                txData.keyImagesToMarkSpent.push([publicSpendKey, input.keyImage]); }
scanInputOwnedSum(input, acc) ==
    LET owner == getKeyImageOwner(input.keyImage)
    IN  IF owner[1]
        THEN [sumOfInputs |-> acc.sumOfInputs + input.amount,
              transfers |-> mapSet(acc.transfers, owner[2],
                                   mapGet(acc.transfers, owner[2]) + input.amount),
              txData |-> [acc.txData EXCEPT !.keyImagesToMarkSpent =
                              Append(@, <<owner[2], input.keyImage>>)]]
        ELSE acc

scanInput(input, acc) ==
    LET owner == getKeyImageOwner(input.keyImage)
    IN  IF owner[1]
        THEN [sumOfInputs |-> acc.sumOfInputs + input.amount,
              transfers |-> mapSet(acc.transfers, owner[2],
                                   mapGet(acc.transfers, owner[2]) + input.amount),
              txData |-> [acc.txData EXCEPT !.keyImagesToMarkSpent =
                              Append(@, <<owner[2], input.keyImage>>)]]
        ELSE [acc EXCEPT !.sumOfInputs = @ + input.amount]

\* for (const input of keyInputs) { ... }, from the i-th input on
RECURSIVE scanInputsFrom(_, _, _)
scanInputsFrom(keyInputs, i, acc) ==
    IF i > Len(keyInputs) THEN acc
    ELSE scanInputsFrom(keyInputs, i + 1, scanInput(keyInputs[i], acc))

\* processTransactionInputs: [sumOfInputs, transfers, txData]
processTransactionInputs(keyInputs, transfers, blockHeight, data) ==
    scanInputsFrom(keyInputs, 1,
                   [sumOfInputs |-> 0, transfers |-> transfers, txData |-> data])

\* processTransactionOutputs: /* TODO */ return [0, transfers, txData];
processTransactionOutputs(rawTX, transfers, blockHeight, data) ==
    [sumOfOutputs |-> 0, transfers |-> transfers, txData |-> data]

\* processTransaction carrying on with the transfer map of the record before
processTransactionSharedMap(rawTX, blockTimestamp, blockHeight, data) ==
    LET n == Len(data.transactionsToAdd)
        before == IF n = 0 THEN EmptyMap ELSE data.transactionsToAdd[n].transfers
        ins == processTransactionInputs(rawTX.keyInputs, before, blockHeight, data)
        outs == processTransactionOutputs(rawTX, ins.transfers, blockHeight, ins.txData)
    IN  IF ~isEmpty(outs.transfers)
        THEN [outs.txData EXCEPT !.transactionsToAdd =
                 Append(@, Transaction(outs.transfers, rawTX.hash,
                                       ins.sumOfInputs - outs.sumOfOutputs,
                                       blockTimestamp, blockHeight, rawTX.paymentID,
                                       rawTX.unlockTime, FALSE))]
        ELSE outs.txData

\* processTransaction: the accumulator it returns
processTransaction(rawTX, blockTimestamp, blockHeight, data) ==
    LET ins == processTransactionInputs(rawTX.keyInputs, EmptyMap, blockHeight, data)
        outs == processTransactionOutputs(rawTX, ins.transfers, blockHeight, ins.txData)
    IN  IF ~isEmpty(outs.transfers)
        THEN [outs.txData EXCEPT !.transactionsToAdd =
                 Append(@, Transaction(outs.transfers, rawTX.hash,
                                       ins.sumOfInputs - outs.sumOfOutputs,
                                       blockTimestamp, blockHeight, rawTX.paymentID,
                                       rawTX.unlockTime, FALSE))]
        ELSE outs.txData

\* processCoinbaseTransaction: the accumulator it returns
processCoinbaseAlwaysPush(rawTX, blockTimestamp, blockHeight, data) ==
    LET outs == processTransactionOutputs(rawTX, EmptyMap, blockHeight, data)
    IN  [outs.txData EXCEPT !.transactionsToAdd =
            Append(@, Transaction(outs.transfers, rawTX.hash, 0, blockTimestamp,
                                  blockHeight, "", rawTX.unlockTime, FALSE))]

processCoinbaseTransaction(rawTX, blockTimestamp, blockHeight, data) ==
    LET outs == processTransactionOutputs(rawTX, EmptyMap, blockHeight, data)
    IN  IF ~isEmpty(outs.transfers)
        THEN [outs.txData EXCEPT !.transactionsToAdd =
                 Append(@, Transaction(outs.transfers, rawTX.hash, 0, blockTimestamp,
                                       blockHeight, "", rawTX.unlockTime, TRUE))]
        ELSE outs.txData

\* the transfer maps a caller hands to processTransactionInputs or
\* processTransactionOutputs: a fresh one, or one with an amount pending for A
TransferMaps == {EmptyMap} \cup {[o \in {"A"} |-> a] : a \in Amounts}

\* The four scanning calls, for the inputs and accumulators the caller draws
\* from the given sets.
ProcessTransactionInputs(inputLists, maps, accumulators) ==
    /\ Attached
    /\ \E keyInputs \in inputLists, transfers \in maps, data \in accumulators,
          blockHeight \in ScannedHeights :
          LET r == processTransactionInputs(keyInputs, transfers, blockHeight, data)
          IN  last' = [name |-> "processTransactionInputs", pre |-> Snapshot,
                       keyInputs |-> keyInputs, transfersIn |-> transfers,
                       blockHeight |-> blockHeight,
                       txDataIn |-> data, sum |-> r.sumOfInputs,
                       transfers |-> r.transfers, txData |-> r.txData]
    /\ UNCHANGED <<calls, daemon, privateViewKey, startTimestamp,
                   startHeight, synchronizationStatus, subWallets, pinLog,
                   resolved>>

ProcessTransactionOutputs(rawTXs, maps, accumulators) ==
    /\ Attached
    /\ \E rawTX \in rawTXs, transfers \in maps, data \in accumulators,
          blockHeight \in ScannedHeights :
          LET r == processTransactionOutputs(rawTX, transfers, blockHeight, data)
          IN  last' = [name |-> "processTransactionOutputs", pre |-> Snapshot,
                       rawTX |-> rawTX, transfersIn |-> transfers,
                       blockHeight |-> blockHeight,
                       txDataIn |-> data, sum |-> r.sumOfOutputs,
                       transfers |-> r.transfers, txData |-> r.txData]
    /\ UNCHANGED <<calls, daemon, privateViewKey, startTimestamp,
                   startHeight, synchronizationStatus, subWallets, pinLog,
                   resolved>>

ProcessTransaction(rawTXs, accumulators) ==
    /\ Attached
    /\ \E rawTX \in rawTXs, data \in accumulators,
          blockTimestamp \in BlockTimestamps, blockHeight \in ScannedHeights :
          last' = [name |-> "processTransaction", pre |-> Snapshot, rawTX |-> rawTX,
                   blockTimestamp |-> blockTimestamp, blockHeight |-> blockHeight,
                   txDataIn |-> data,
                   txData |-> processTransaction(rawTX, blockTimestamp, blockHeight, data)]
    /\ UNCHANGED <<calls, daemon, privateViewKey, startTimestamp,
                   startHeight, synchronizationStatus, subWallets, pinLog,
                   resolved>>

ProcessCoinbaseTransaction(rawTXs, accumulators) ==
    /\ Attached
    /\ \E rawTX \in rawTXs, data \in accumulators,
          blockTimestamp \in BlockTimestamps, blockHeight \in ScannedHeights :
          last' = [name |-> "processCoinbaseTransaction", pre |-> Snapshot,
                   rawTX |-> rawTX, blockTimestamp |-> blockTimestamp,
                   blockHeight |-> blockHeight, txDataIn |-> data,
                   txData |-> processCoinbaseTransaction(rawTX, blockTimestamp,
                                                         blockHeight, data)]
    /\ UNCHANGED <<calls, daemon, privateViewKey, startTimestamp,
                   startHeight, synchronizationStatus, subWallets, pinLog,
                   resolved>>

(***************************************************************************)
(* The checkpoint facade and the lifecycle calls.                          *)
(***************************************************************************)
\* storeBlockHash(blockHeight, blockHash), called once per confirmed block in
\* increasing height order
StoreBlockHash ==
    /\ \E blockHeight \in Heights :
          /\ blockHeight > getHeight(synchronizationStatus)
          /\ synchronizationStatus' =
                statusStoreBlockHash(synchronizationStatus, blockHeight,
                                     BlockHashAt(blockHeight))
          /\ last' = [name |-> "storeBlockHash", pre |-> Snapshot,
                      blockHeight |-> blockHeight,
                      blockHash |-> BlockHashAt(blockHeight)]
    /\ UNCHANGED <<calls, daemon, privateViewKey, startTimestamp,
                   startHeight, subWallets, pinLog, resolved>>

InitAfterLoad ==
    /\ subWallets' = "attached"
    /\ last' = [name |-> "initAfterLoad", pre |-> Snapshot]
    /\ UNCHANGED <<calls, daemon, privateViewKey, startTimestamp,
                   startHeight, synchronizationStatus, pinLog, resolved>>

toJSON(key, ts, sh, status) ==
    [privateViewKey |-> key, startHeight |-> sh, startTimestamp |-> ts,
     transactionSynchronizerStatus |-> statusToJSON(status)]

ToJSON ==
    /\ last' = [name |-> "toJSON", pre |-> Snapshot,
                json |-> toJSON(privateViewKey, startTimestamp, startHeight,
                               synchronizationStatus)]
    /\ UNCHANGED <<calls, daemon, privateViewKey, startTimestamp,
                   startHeight, synchronizationStatus, subWallets, pinLog,
                   resolved>>

\* fromJSON(json) with a tracker built anew instead of from the structure
fromJSONFreshStatus(json) ==
    [privateViewKey |-> json.privateViewKey,
     startHeight |-> json.startHeight,
     startTimestamp |-> json.startTimestamp,
     synchronizationStatus |-> NewSynchronizationStatus,
     daemon |-> "undefined",
     subWallets |-> "undefined"]

\* static fromJSON(json): Object.create(WalletSynchronizer.prototype) runs no
\* constructor and no field initialiser, and Object.assign sets the four
\* fields below; daemon and subWallets are assigned by neither.
fromJSON(json) ==
    [privateViewKey |-> json.privateViewKey,
     startHeight |-> json.startHeight,
     startTimestamp |-> json.startTimestamp,
     synchronizationStatus |-> statusFromJSON(json.transactionSynchronizerStatus),
     daemon |-> "undefined",
     subWallets |-> "undefined"]

\* The caller replaces the synchronizer by the one restored from the
\* structure toJSON has just produced.
FromJSON ==
    /\ last.name = "toJSON"
    /\ LET restored == fromJSON(last.json)
       IN  /\ privateViewKey' = restored.privateViewKey
           /\ startHeight' = restored.startHeight
           /\ startTimestamp' = restored.startTimestamp
           /\ synchronizationStatus' = restored.synchronizationStatus
           /\ daemon' = restored.daemon
           /\ subWallets' = restored.subWallets
    /\ last' = [name |-> "fromJSON", pre |-> Snapshot, json |-> last.json]
    /\ UNCHANGED <<calls, pinLog, resolved>>

\* checkLockedTransactions: return [];
checkLockedTransactions(transactionHashes) == <<>>

CheckLockedTransactions ==
    /\ \E transactionHashes \in SeqsUpTo(TxHashes, 1) :
          last' = [name |-> "checkLockedTransactions", pre |-> Snapshot,
                   transactionHashes |-> transactionHashes,
                   unlocked |-> checkLockedTransactions(transactionHashes)]
    /\ UNCHANGED <<calls, daemon, privateViewKey, startTimestamp,
                   startHeight, synchronizationStatus, subWallets, pinLog,
                   resolved>>

\* constructor(daemon, startTimestamp, startHeight, privateViewKey)
Init ==
    /\ daemon = "attached"
    /\ privateViewKey \in PrivateViewKeys
    /\ startTimestamp \in Timestamps
    /\ startHeight \in Heights
    /\ synchronizationStatus = NewSynchronizationStatus
    /\ subWallets = "prototype"
    /\ calls = <<>>
    /\ pinLog = <<>>
    /\ resolved = FALSE
    /\ last = [name |-> "constructor"]

(***************************************************************************)
(* Spec: the life of one synchronizer.  Between fetches the caller scans   *)
(* transactions; in this specification they are small and go into a fresh  *)
(* accumulator.                                                            *)
(***************************************************************************)
TickKeyInputs == {<<>>, <<[amount |-> 1, keyImage |-> "kA"]>>}

TickRawTXs == [hash : {"tx1"}, keyInputs : TickKeyInputs, keyOutputs : {<<>>},
               paymentID : {"pid"}, unlockTime : {0}]

TickCoinbaseTXs == [hash : {"tx2"}, keyOutputs : {<<[amount |-> 1, key |-> "oA"]>>},
                    unlockTime : {5}]

TickScanInputs == ProcessTransactionInputs(TickKeyInputs, {EmptyMap}, {EmptyTxData})

TickScanOutputs == ProcessTransactionOutputs(TickCoinbaseTXs, {EmptyMap}, {EmptyTxData})

TickScanTransaction == ProcessTransaction(TickRawTXs, {EmptyTxData})

TickScanCoinbase == ProcessCoinbaseTransaction(TickCoinbaseTXs, {EmptyTxData})

Next ==
    \/ GetBlocks
    \/ StoreBlockHash
    \/ InitAfterLoad
    \/ ToJSON
    \/ CheckLockedTransactions
    \/ TickScanInputs
    \/ TickScanOutputs
    \/ TickScanTransaction
    \/ TickScanCoinbase

Spec == Init /\ [][Next]_vars

(***************************************************************************)
(* SpecFair: ticks of a synchronizer whose caller does attach the          *)
(* sub-wallets and keeps calling getBlocks, with a daemon that, asked      *)
(* again and again, does once catch up and answer with a batch.            *)
(***************************************************************************)
\* a getBlocks call that finds the daemon not behind and gets a batch
GetBlocksAnswered ==
    /\ GetBlocks
    /\ last'.requests # <<>>
    /\ ~last'.response.failed
    /\ Len(last'.response.blocks) > 0

NextFair ==
    \/ GetBlocks
    \/ StoreBlockHash
    \/ InitAfterLoad

\* the constructor called with a start timestamp, for one view key and the
\* lowest and the highest start height
InitFair ==
    /\ Init
    /\ privateViewKey = "viewKey1"
    /\ startTimestamp # 0
    /\ startHeight \in {0, MaxHeight}

SpecFair ==
    /\ InitFair
    /\ [][NextFair]_vars
    /\ WF_vars(InitAfterLoad)
    /\ WF_vars(GetBlocksAnswered)

(***************************************************************************)
(* SpecRestore: the life of a synchronizer that is also saved and restored.*)
(***************************************************************************)
NextRestore ==
    \/ GetBlocks
    \/ StoreBlockHash
    \/ InitAfterLoad
    \/ ToJSON
    \/ FromJSON

SpecRestore == Init /\ [][NextRestore]_vars

(***************************************************************************)
(* SpecOverlap: getBlocks calls of an attached synchronizer started with a *)
(* timestamp, up to MaxCalls of them awaiting the daemon at the same time. *)
(***************************************************************************)
InitOverlap ==
    /\ daemon = "attached"
    /\ privateViewKey \in PrivateViewKeys
    /\ startTimestamp \in Timestamps \ {0}
    /\ startHeight \in Heights
    /\ synchronizationStatus \in
          {NewSynchronizationStatus,
           statusStoreBlockHash(NewSynchronizationStatus, 1, BlockHashAt(1))}
    /\ subWallets = "attached"
    /\ calls = <<>>
    /\ pinLog = <<>>
    /\ resolved = FALSE
    /\ last = [name |-> "initAfterLoad"]

NextOverlap ==
    \/ GetBlocksEnter
    \/ GetBlocksResume

SpecOverlap == InitOverlap /\ [][NextOverlap]_vars

(***************************************************************************)
(* SpecScan: one scanning call of an attached synchronizer, for every raw  *)
(* transaction within the bounds and every accumulator that already holds  *)
(* up to MaxPrior records and spend markers of earlier transactions.       *)
(***************************************************************************)
PriorTransactions ==
    {Transaction([o \in {"B"} |-> 1], "tx0", 0, 1540000000, 0, "", 0, TRUE)}

PriorMarkers == {<<"B", "k0">>}

TxDatas == [transactionsToAdd : SeqsUpTo(PriorTransactions, MaxPrior),
            keyImagesToMarkSpent : SeqsUpTo(PriorMarkers, MaxPrior)]

InitScan ==
    /\ daemon = "attached"
    /\ privateViewKey = "viewKey1"
    /\ startTimestamp = 0
    /\ startHeight = 0
    /\ synchronizationStatus = NewSynchronizationStatus
    /\ subWallets = "attached"
    /\ calls = <<>>
    /\ pinLog = <<>>
    /\ resolved = FALSE
    /\ last = [name |-> "initAfterLoad"]

FirstCall == last.name = "initAfterLoad"

ScanInputs ==
    FirstCall /\ ProcessTransactionInputs(SeqsUpTo(KeyInputs, MaxInputs), TransferMaps, TxDatas)

ScanOutputs == FirstCall /\ ProcessTransactionOutputs(RawCoinbaseTXs, TransferMaps, TxDatas)

ScanTransaction == FirstCall /\ ProcessTransaction(RawTXs, TxDatas)

ScanCoinbase == FirstCall /\ ProcessCoinbaseTransaction(RawCoinbaseTXs, TxDatas)

NextScan ==
    \/ ScanInputs
    \/ ScanOutputs
    \/ ScanTransaction
    \/ ScanCoinbase

SpecScan == InitScan /\ [][NextScan]_vars

(***************************************************************************)
(* SpecThread: the scan of one batch, transaction after transaction, each  *)
(* call handed the accumulator the call before returned, until it holds    *)
(* MaxThread records.                                                      *)
(***************************************************************************)
ThreadRawTXs == [hash : TxHashes, keyInputs : SeqsUpTo(KeyInputs, 1),
                 keyOutputs : {<<>>, <<[amount |-> 1, key |-> "oA"]>>},
                 paymentID : {"pid"}, unlockTime : {0}]

ThreadCoinbaseTXs == [hash : TxHashes, keyOutputs : {<<[amount |-> 1, key |-> "oA"]>>},
                      unlockTime : {5}]

\* the accumulator as the scan so far has left it
Threaded ==
    IF last.name \in {"processTransaction", "processCoinbaseTransaction"}
    THEN last.txData ELSE EmptyTxData

ThreadTransaction ==
    /\ Len(Threaded.transactionsToAdd) < MaxThread
    /\ ProcessTransaction(ThreadRawTXs, {Threaded})

ThreadCoinbase ==
    /\ Len(Threaded.transactionsToAdd) < MaxThread
    /\ ProcessCoinbaseTransaction(ThreadCoinbaseTXs, {Threaded})

NextThread ==
    \/ ThreadTransaction
    \/ ThreadCoinbase

SpecThread == InitScan /\ [][NextThread]_vars

(***************************************************************************)
(* Properties of getBlocks, stated on the record of the last call.         *)
(***************************************************************************)
\* the last call was a getBlocks that asked the daemon and got a non-empty batch
GotBatch ==
    /\ last.name = "getBlocks"
    /\ last.requests # <<>>
    /\ ~last.response.failed
    /\ Len(last.response.blocks) > 0

\* the resume point is what it was when the last call was entered
ResumePointKept ==
    /\ startTimestamp = last.pre.startTimestamp
    /\ startHeight = last.pre.startHeight

\* C1: a getBlocks call made while the daemon's block count is below the
\* synchronizer's height returns an empty batch, issues no request and no pin
\* notification, and leaves the resume point and the checkpoint tracker alone.
C1_NodeBehindNoOp ==
    (/\ last.name = "getBlocks"
     /\ last.localDaemonBlockCount < getHeight(last.pre.synchronizationStatus))
    => /\ last.blocks = <<>>
       /\ ~last.threw
       /\ last.requests = <<>>
       /\ last.pins = <<>>
       /\ ResumePointKept
       /\ synchronizationStatus = last.pre.synchronizationStatus

\* the daemon was behind although it had a batch to give and a timestamp was
\* waiting to be pinned
C1_Witness ==
    /\ last.name = "getBlocks"
    /\ last.localDaemonBlockCount < getHeight(last.pre.synchronizationStatus)
    /\ last.pre.synchronizationStatus.blockHashCheckpoints # <<>>
    /\ last.pre.startTimestamp # 0
    /\ ~last.response.failed
    /\ Len(last.response.blocks) > 0

\* C2: when the request fails or resolves to an empty batch, getBlocks returns
\* an empty batch without an error, keeps startHeight and startTimestamp and
\* issues no pin notification.
C2_TransientFailure ==
    (/\ last.name = "getBlocks"
     /\ last.requests # <<>>
     /\ (last.response.failed \/ Len(last.response.blocks) = 0))
    => /\ last.blocks = <<>>
       /\ ~last.threw
       /\ last.pins = <<>>
       /\ ResumePointKept

\* a request failed while a start timestamp was still waiting to be pinned
C2_Witness ==
    /\ last.name = "getBlocks"
    /\ last.requests # <<>>
    /\ last.response.failed
    /\ startTimestamp # 0

\* C3: a non-empty batch received while startTimestamp # 0 zeroes the
\* timestamp, sets startHeight to the first returned block's height and issues
\* the pin notification exactly once during that call.
C3_Pin ==
    (GotBatch /\ last.pre.startTimestamp # 0)
    => /\ startTimestamp = 0
       /\ startHeight = last.response.blocks[1].blockHeight
       /\ Len(last.pins) = 1

\* the first batch of a timestamp start: several blocks, the first at a height
\* other than the startHeight the synchronizer was built with
C3_Witness ==
    /\ GotBatch
    /\ last.pre.startTimestamp # 0
    /\ Len(pinLog) = 1
    /\ Len(last.response.blocks) > 1
    /\ last.response.blocks[1].blockHeight # last.pre.startHeight

\* C4: a call entered with startTimestamp = 0 and an empty checkpoint window
\* that receives a non-empty batch fails iff the first block's height differs
\* from startHeight, returns the batch otherwise, and its request carried that
\* startHeight.
C4_FirstSyncAssertion ==
    (/\ GotBatch
     /\ last.pre.startTimestamp = 0
     /\ last.pre.synchronizationStatus.blockHashCheckpoints = <<>>)
    => /\ last.threw <=> (last.response.blocks[1].blockHeight # last.pre.startHeight)
       /\ ~last.threw => last.blocks = last.response.blocks
       /\ Len(last.requests) = 1
       /\ last.requests[1].startHeight = last.pre.startHeight
       /\ last.requests[1].startTimestamp = 0

\* a height start from MaxHeight whose first block came back lower: the fatal case
C4_Witness ==
    /\ GotBatch
    /\ last.pre.startTimestamp = 0
    /\ last.pre.synchronizationStatus.blockHashCheckpoints = <<>>
    /\ last.pre.startHeight = MaxHeight
    /\ last.response.blocks[1].blockHeight < MaxHeight
    /\ last.threw

\* C5: once startTimestamp is 0 it is 0 after every later call.
C5_PinPermanent == [][startTimestamp = 0 => startTimestamp' = 0]_vars

\* a synchronizer pinned by an earlier call received another non-empty batch
C5_Witness ==
    /\ Len(pinLog) = 1
    /\ GotBatch
    /\ last.pre.startTimestamp = 0
    /\ startTimestamp = 0

\* C6 as stated: exactly one of startTimestamp = 0 and "no batch received yet"
\* holds in every state.
C6_ExactlyOne == (startTimestamp = 0) # (~resolved)

\* C6 as amended: at least one of them holds in every state, that is, a
\* synchronizer that has received a batch has startTimestamp = 0.
C6_AtLeastOne == resolved => startTimestamp = 0

\* a timestamp start that has just received its first batch
C6_Witness ==
    /\ GotBatch
    /\ last.pre.startTimestamp # 0
    /\ resolved
    /\ startTimestamp = 0
(***************************************************************************)
(* Properties of the scanner, stated on the record of the last call.       *)
(***************************************************************************)
RECURSIVE SumAmounts(_)
SumAmounts(items) ==
    IF items = <<>> THEN 0 ELSE items[1].amount + SumAmounts(Tail(items))

\* the key inputs the wallet owns, in input order, and those of one owner
OwnedInputs(keyInputs) ==
    SelectSeq(keyInputs, LAMBDA i : getKeyImageOwner(i.keyImage)[1])

InputsOf(keyInputs, owner) ==
    SelectSeq(keyInputs, LAMBDA i : getKeyImageOwner(i.keyImage) = <<TRUE, owner>>)

\* the outputs paid to one owner
OutputsOf(keyOutputs, owner) ==
    SelectSeq(keyOutputs, LAMBDA o : outputOwner(o) = <<TRUE, owner>>)

\* one (owner, keyImage) marker per owned input, in input order
SpendMarkers(keyInputs) ==
    [j \in 1..Len(OwnedInputs(keyInputs)) |->
        <<getKeyImageOwner(OwnedInputs(keyInputs)[j].keyImage)[2],
          OwnedInputs(keyInputs)[j].keyImage>>]

\* what the last call appended to the accumulator
AddedTransactions ==
    SubSeq(last.txData.transactionsToAdd, Len(last.txDataIn.transactionsToAdd) + 1,
           Len(last.txData.transactionsToAdd))

KeptTransactions ==
    /\ Len(last.txData.transactionsToAdd) >= Len(last.txDataIn.transactionsToAdd)
    /\ SubSeq(last.txData.transactionsToAdd, 1, Len(last.txDataIn.transactionsToAdd))
          = last.txDataIn.transactionsToAdd

\* C7: processTransactionInputs returns the sum of all input amounts, adds to
\* each owner's transfer exactly the amounts of the inputs that owner owns,
\* appends one spend marker per owned input in input order, and does nothing
\* else for inputs the wallet does not own.
C7_ScanInputs ==
    (last.name = "processTransactionInputs")
    => /\ last.sum = SumAmounts(last.keyInputs)
       /\ \A o \in Owners :
             mapGet(last.transfers, o) =
                mapGet(last.transfersIn, o) + SumAmounts(InputsOf(last.keyInputs, o))
       /\ DOMAIN last.transfers =
             (DOMAIN last.transfersIn)
                \cup {o \in Owners : InputsOf(last.keyInputs, o) # <<>>}
       /\ last.txData.keyImagesToMarkSpent =
             last.txDataIn.keyImagesToMarkSpent \o SpendMarkers(last.keyInputs)
       /\ last.txData.transactionsToAdd = last.txDataIn.transactionsToAdd

\* an owned input added to an amount already pending for its owner, next to an
\* input of somebody else, into an accumulator that already held a marker
C7_Witness ==
    /\ last.name = "processTransactionInputs"
    /\ Len(last.keyInputs) = 2
    /\ last.keyInputs[1].keyImage = "kN"
    /\ last.keyInputs[2].keyImage = "kA"
    /\ "A" \in DOMAIN last.transfersIn
    /\ last.txDataIn.keyImagesToMarkSpent # <<>>
    /\ Len(last.txData.keyImagesToMarkSpent) = Len(last.txDataIn.keyImagesToMarkSpent) + 1

\* the transfer map processTransaction ends up with for a raw transaction
ScannedTransfers(rawTX) ==
    processTransactionOutputs(rawTX,
        processTransactionInputs(rawTX.keyInputs, EmptyMap, 0, EmptyTxData).transfers,
        0, EmptyTxData).transfers

\* C8: processTransaction appends nothing when the scanned transfer map is
\* empty, and otherwise exactly one record, not coinbase, with the raw
\* transaction's hash, paymentID and unlockTime and with
\* fee = sum of its key-input amounts - sum of its output amounts.
C8_ScanTransaction ==
    (last.name = "processTransaction")
    => /\ KeptTransactions
       /\ isEmpty(ScannedTransfers(last.rawTX)) => AddedTransactions = <<>>
       /\ ~isEmpty(ScannedTransfers(last.rawTX)) =>
             /\ Len(AddedTransactions) = 1
             /\ AddedTransactions[1].isCoinbaseTransaction = FALSE
             /\ AddedTransactions[1].hash = last.rawTX.hash
             /\ AddedTransactions[1].paymentID = last.rawTX.paymentID
             /\ AddedTransactions[1].unlockTime = last.rawTX.unlockTime
             /\ AddedTransactions[1].fee =
                   SumAmounts(last.rawTX.keyInputs) - SumAmounts(last.rawTX.keyOutputs)

\* C9: processTransactionOutputs returns the sum of all output amounts and
\* accumulates each owned output's amount under its owner; so a transaction,
\* coinbase or not, that pays an output to the wallet yields a record.
C9_ScanOutputs ==
    /\ (last.name = "processTransactionOutputs")
       => /\ last.sum = SumAmounts(last.rawTX.keyOutputs)
          /\ \A o \in Owners :
                mapGet(last.transfers, o) =
                   mapGet(last.transfersIn, o)
                      + SumAmounts(OutputsOf(last.rawTX.keyOutputs, o))
    /\ (/\ last.name \in {"processTransaction", "processCoinbaseTransaction"}
        /\ \E o \in Owners : OutputsOf(last.rawTX.keyOutputs, o) # <<>>)
       => Len(AddedTransactions) = 1

C12_RestoredResumes ==
    last.name = "getBlocks" =>
        LET r == getBlocks(last.pre.startTimestamp, last.pre.startHeight,
                           last.pre.synchronizationStatus,
                           last.localDaemonBlockCount, last.response)
        IN  /\ last.error # "TypeError"
            /\ last.requests = r.requests
            /\ last.blocks = r.blocks
            /\ last.threw = r.threw
            /\ startHeight = r.startHeight
            /\ startTimestamp = r.startTimestamp

(***************************************************************************)
(* Further properties of getBlocks and of the checkpoint facade.           *)
(***************************************************************************)
\* C13: only storeBlockHash changes the current height and the checkpoint
\* window; after getBlocks (whatever its path), processTransactionInputs,
\* processTransactionOutputs, processTransaction, processCoinbaseTransaction,
\* checkLockedTransactions, toJSON or initAfterLoad both are what they were
\* when the call was entered.
C13_CheckpointFrame ==
    last.name \notin {"constructor", "storeBlockHash"} =>
        /\ getHeight(synchronizationStatus) = getHeight(last.pre.synchronizationStatus)
        /\ getBlockHashCheckpoints(synchronizationStatus)
              = getBlockHashCheckpoints(last.pre.synchronizationStatus)

\* a getBlocks call that pinned the resume point and returned its batch, made
\* with a full checkpoint window
C13_Witness ==
    /\ GotBatch
    /\ last.pins # <<>>
    /\ last.blocks # <<>>
    /\ Len(getBlockHashCheckpoints(synchronizationStatus)) = WindowSize

\* C14: a getBlocks call entered with a non-empty checkpoint window and
\* startTimestamp = 0 that gets a non-empty batch returns exactly that batch,
\* raises no error and changes nothing, whatever the height of the first
\* block (at or below the current height after a re-organisation included).
C14_ForkPassThrough ==
    (/\ GotBatch
     /\ last.pre.startTimestamp = 0
     /\ Len(getBlockHashCheckpoints(last.pre.synchronizationStatus)) > 0)
    => /\ last.blocks = last.response.blocks
       /\ ~last.threw
       /\ last.pins = <<>>
       /\ ResumePointKept
       /\ synchronizationStatus = last.pre.synchronizationStatus

\* the daemon answered below the wallet's height, and not at its start height
C14_Witness ==
    /\ GotBatch
    /\ last.pre.startTimestamp = 0
    /\ Len(getBlockHashCheckpoints(last.pre.synchronizationStatus)) > 0
    /\ last.response.blocks[1].blockHeight < getHeight(last.pre.synchronizationStatus)
    /\ last.response.blocks[1].blockHeight # last.pre.startHeight
    /\ Len(last.blocks) = MaxBatch

\* C15: a getBlocks call made while the daemon's block count is at or above
\* the current height issues exactly one getWalletSyncData request, carrying
\* the checkpoint window, startHeight and startTimestamp the call was entered
\* with; so a request issued after a pin carries startTimestamp = 0 and the
\* pinned first-block height as startHeight.
C15_RequestProtocol ==
    (/\ last.name = "getBlocks"
     /\ last.localDaemonBlockCount >= getHeight(last.pre.synchronizationStatus))
    => /\ last.requests =
            <<[blockCheckpoints |->
                   getBlockHashCheckpoints(last.pre.synchronizationStatus),
               startHeight |-> last.pre.startHeight,
               startTimestamp |-> last.pre.startTimestamp]>>
       /\ Len(pinLog) > Len(last.pins) =>
            /\ last.requests[1].startTimestamp = 0
            /\ last.requests[1].startHeight = pinLog[1].height

\* a call after the pin, made with the daemon exactly at the wallet's height
C15_Witness ==
    /\ last.name = "getBlocks"
    /\ Len(pinLog) = 1
    /\ last.pins = <<>>
    /\ last.localDaemonBlockCount = getHeight(last.pre.synchronizationStatus)
    /\ last.localDaemonBlockCount > 0
    /\ last.requests # <<>>
    /\ last.requests[1].startHeight > 0

\* C16: the pin notification a getBlocks call sends to the key-management
\* collaborator carries the start timestamp the call was entered with (the
\* non-zero value it sent to the daemon) and the height of the first block
\* of the batch.
C16_PinPayload ==
    (last.name = "getBlocks" /\ last.pins # <<>>) =>
        last.pins = <<[timestamp |-> last.pre.startTimestamp,
                       height |-> last.response.blocks[1].blockHeight]>>

\* C17: with calls that do not overlap, a getBlocks call entered with
\* startTimestamp # 0 never fails with the height-mismatch error, whatever the
\* first block's height and whether or not the window is empty; the error is
\* raised only by calls entered with startTimestamp = 0 and an empty window.
C17_TimestampStartSafe ==
    (last.name = "getBlocks" /\ last.threw) =>
        /\ last.pre.startTimestamp = 0
        /\ Len(getBlockHashCheckpoints(last.pre.synchronizationStatus)) = 0

\* a timestamp start with no checkpoints got a batch that does not begin at
\* its startHeight, and returned it
C17_Witness ==
    /\ GotBatch
    /\ last.pre.startTimestamp # 0
    /\ Len(getBlockHashCheckpoints(last.pre.synchronizationStatus)) = 0
    /\ last.response.blocks[1].blockHeight # last.pre.startHeight
    /\ ~last.threw
    /\ last.blocks = last.response.blocks

(***************************************************************************)
(* Properties of getBlocks calls that overlap at the await.                *)
(***************************************************************************)
\* the last step resumed a call that was entered with a timestamp
ResumedTimestampCall ==
    /\ last.name = "getBlocksResume"
    /\ last.entered.request.startTimestamp # 0

\* C18 as stated: however getBlocks calls entered with startTimestamp # 0
\* overlap at the await, the pin notification is issued at most once in all
\* (and with it startHeight rewritten at most once), and none of the calls
\* fails with the height-mismatch error.
C18_OverlapSafe ==
    /\ Len(pinLog) <= 1
    /\ ResumedTimestampCall => ~last.threw

\* C18, amended: the pin notification is issued at most once in all, by the
\* first call that is resumed with a batch, and that call does not fail; a
\* call resumed with a batch after the pin fails with the height-mismatch
\* error exactly when it read an empty checkpoint window and its batch does
\* not begin at the pinned height.
C18_OverlapPinOnce ==
    /\ Len(pinLog) <= 1
    /\ (ResumedTimestampCall /\ last.received) =>
          /\ Len(pinLog) = 1
          /\ startTimestamp = 0
          /\ startHeight = pinLog[1].height
          /\ last.pins # <<>> => ~last.threw
          /\ last.pins = <<>> =>
                (last.threw <=>
                    /\ Len(last.entered.blockCheckpoints) = 0
                    /\ last.response.blocks[1].blockHeight # pinLog[1].height)
    /\ (ResumedTimestampCall /\ ~last.received) => ~last.threw

\* the second of two overlapping timestamp calls was resumed with a batch
\* after the first had pinned, while yet another call was still suspended
C18_Witness ==
    /\ ResumedTimestampCall
    /\ last.received
    /\ last.pins = <<>>
    /\ Len(pinLog) = 1
    /\ ~last.threw
    /\ Len(last.entered.blockCheckpoints) = 0
    /\ Len(calls) = MaxCalls - 1

(***************************************************************************)
(* Properties of a scan that threads one accumulator.                      *)
(***************************************************************************)
\* the owners the wallet finds in the transaction of the last call
OwnersFound ==
    {o \in Owners :
        \/ /\ last.name = "processTransaction"
           /\ Len(InputsOf(last.rawTX.keyInputs, o)) > 0
        \/ Len(OutputsOf(last.rawTX.keyOutputs, o)) > 0}

\* what the last call appended to the spend markers
AddedMarkers ==
    SubSeq(last.txData.keyImagesToMarkSpent,
           Len(last.txDataIn.keyImagesToMarkSpent) + 1,
           Len(last.txData.keyImagesToMarkSpent))

KeptMarkers ==
    /\ Len(last.txData.keyImagesToMarkSpent) >= Len(last.txDataIn.keyImagesToMarkSpent)
    /\ SubSeq(last.txData.keyImagesToMarkSpent, 1,
              Len(last.txDataIn.keyImagesToMarkSpent))
          = last.txDataIn.keyImagesToMarkSpent

\* C19: over a sequence of processTransaction and processCoinbaseTransaction
\* calls that thread one accumulator, every call keeps the transactions and
\* spend markers it was handed, in place and unchanged, and only appends; the
\* transfers of a Transaction it appends name only owners found in that
\* transaction; and a processTransaction call that appends a spend marker
\* also appends the Transaction record of that transaction.
C19_LedgerDelta ==
    last.name \in {"processTransaction", "processCoinbaseTransaction"} =>
        /\ KeptTransactions
        /\ KeptMarkers
        /\ \A j \in 1..Len(AddedTransactions) :
              /\ DOMAIN AddedTransactions[j].transfers \subseteq OwnersFound
              /\ AddedTransactions[j].hash = last.rawTX.hash
        /\ (last.name = "processTransaction" /\ Len(AddedMarkers) > 0) =>
              Len(AddedTransactions) = 1

\* the second record of a thread, for a transaction of another owner than
\* the first, appended together with its spend marker
C19_Witness ==
    /\ last.name = "processTransaction"
    /\ Len(last.txDataIn.transactionsToAdd) = MaxThread - 1
    /\ Len(AddedTransactions) = 1
    /\ Len(AddedMarkers) = 1
    /\ DOMAIN AddedTransactions[1].transfers
          # DOMAIN last.txDataIn.transactionsToAdd[1].transfers

(***************************************************************************)
(* Progress of the timestamp start under retries.                          *)
(***************************************************************************)
\* a getBlocks step that ends behind the daemon check, on a failed request
\* or on an empty batch
UnansweredTick ==
    /\ last'.name = "getBlocks"
    /\ \/ last'.requests = <<>>
       \/ last'.response.failed
       \/ Len(last'.response.blocks) = 0

\* C20: when getBlocks is called again and again and the daemon does once
\* catch up and answer with a non-empty batch, a synchronizer started with
\* startTimestamp # 0 reaches startTimestamp = 0 with startHeight pinned to
\* the first block received; the node-behind, failed and empty ticks before
\* that leave the synchronizer as it was.
C20_RetryProgress ==
    /\ [][UnansweredTick =>
            UNCHANGED <<startTimestamp, startHeight, synchronizationStatus,
                        subWallets, pinLog, resolved>>]_vars
    /\ (startTimestamp # 0)
          ~> (/\ startTimestamp = 0
              /\ Len(pinLog) = 1
              /\ startHeight = pinLog[1].height)

\* the pin, made at a tick on which the daemon had just caught up with a
\* wallet that already has confirmed blocks
C20_Witness ==
    /\ GotBatch
    /\ last.pins # <<>>
    /\ startTimestamp = 0
    /\ startHeight = pinLog[1].height
    /\ last.localDaemonBlockCount = getHeight(synchronizationStatus)
    /\ getHeight(synchronizationStatus) = MaxHeight

====
